---- MODULE Spec2Model ----
(***************************************************************************)
(* Model of AnalysisVarians/App/app.py: a Streamlit script that reads an   *)
(* uploaded table, lets the user pick a budget, an actual and a category   *)
(* column, adds the columns 'Variance' and 'Variance_Percentage' to the    *)
(* DataFrame, shows totals, optionally asks a commentary service (Groq)    *)
(* for an analysis and draws two charts.                                   *)
(*                                                                         *)
(* Streamlit runs the script from line 1 to the end on every user          *)
(* interaction.  One script run is modelled as a chain of steps (pc); the  *)
(* user actions (upload, select, click) are enabled between runs and only  *)
(* for widgets the last run rendered.                                      *)
(*                                                                         *)
(* Numbers: pandas computes the percentage in float64.  The model keeps    *)
(* exact extended rationals n/d with d >= 0: d > 0 is the finite n/d,      *)
(* 1/0 is inf, -1/0 is -inf, 0/0 is NaN.  Rounding and the sign of a       *)
(* floating zero are not modelled.                                         *)
(***************************************************************************)
EXTENDS Integers, Sequences, FiniteSets, TLC

VARIABLES
    env,                 \* lines 9-31: "nokey" (GROQ_API_KEY unset), "initfail"
                         \* (Groq() raises) or "ok"; fixed for the process
    uploaded_file,       \* line 34: the value st.file_uploader returns
    widgets,             \* lines 74-80: stored selectbox values, "?" = none stored
    clicked,             \* line 116: the button was pressed for this run
    pc,                  \* position of the running script
    df,                  \* lines 44-46, 84-85: the DataFrame of this run
    budget_col,          \* line 74
    actual_col,          \* line 77
    category_col,        \* line 80
    totals,              \* lines 91-94: total_budget, total_actual,
                         \* total_variance, variance_percentage
    exc,                 \* the exception on its way to the except of line 191
    requests,            \* line 143: chat.completions.create calls of this run
    out                  \* the elements this run has rendered, in order

vars == <<env, uploaded_file, widgets, clicked, pc, df, budget_col, actual_col,
          category_col, totals, exc, requests, out>>

-----------------------------------------------------------------------------
(* Bounds of the input space *)

MaxRows == 2

Vals == {-1, 0, 1}

Schemas == { <<>>,
             <<"Category", "Budget", "Actual">>,
             <<"Budget", "Variance">>,
             <<"Variance_Percentage", "Actual">> }

-----------------------------------------------------------------------------
(* Cells and float arithmetic *)

Q(n, d) == [k |-> "q", n |-> n, d |-> d]
Text == [k |-> "s", n |-> 0, d |-> 0]
Unset == [k |-> "unset", n |-> 0, d |-> 0]
NaN == Q(0, 0)
Zero == Q(0, 1)

Abs(i) == IF i < 0 THEN -i ELSE i
Sgn(i) == IF i < 0 THEN -1 ELSE IF i = 0 THEN 0 ELSE 1

RECURSIVE GCD(_, _)
GCD(a, b) == IF b = 0 THEN a ELSE GCD(b, a % b)

Norm(n, d) == IF d = 0 THEN Q(Sgn(n), 0)
              ELSE LET g == GCD(Abs(n), d) IN Q(n \div g, d \div g)

IsNum(x) == x.k = "q"
IsNaN(x) == x.k = "q" /\ x.d = 0 /\ x.n = 0

QNeg(x) == Q(-x.n, x.d)

QAdd(x, y) ==
    IF IsNaN(x) \/ IsNaN(y) THEN NaN
    ELSE IF x.d = 0 /\ y.d = 0 THEN (IF x.n = y.n THEN x ELSE NaN)
    ELSE IF x.d = 0 THEN x
    ELSE IF y.d = 0 THEN y
    ELSE Norm(x.n * y.d + y.n * x.d, x.d * y.d)

QSub(x, y) == QAdd(x, QNeg(y))

QDiv(x, y) ==
    IF IsNaN(x) \/ IsNaN(y) THEN NaN
    ELSE IF x.d = 0 /\ y.d = 0 THEN NaN
    ELSE IF x.d = 0 THEN Q(IF y.n < 0 THEN -x.n ELSE x.n, 0)
    ELSE IF y.d = 0 THEN Zero
    ELSE IF y.n = 0 THEN Q(Sgn(x.n), 0)
    ELSE Norm(x.n * y.d * Sgn(y.n), x.d * Abs(y.n))

QTimes100(x) == IF x.d = 0 THEN x ELSE Norm(x.n * 100, x.d)

-----------------------------------------------------------------------------
(* DataFrames *)

Range(s) == {s[i] : i \in 1..Len(s)}

NoFrame == [cols |-> <<>>, rows |-> <<>>]

Column(frame, c) == [i \in 1..Len(frame.rows) |-> frame.rows[i][c]]

\* frame[name] = values: an existing column is overwritten in place, a new
\* one is appended as the last column.
SetColumn(frame, name, values) ==
    [cols |-> IF name \in Range(frame.cols) THEN frame.cols
              ELSE Append(frame.cols, name),
     rows |-> [i \in 1..Len(frame.rows) |->
                 [c \in Range(frame.cols) \cup {name} |->
                    IF c = name THEN values[i] ELSE frame.rows[i][c]]]]

\* Series.sum(): NaN entries are skipped, the empty sum is 0.
RECURSIVE SumSeq(_, _)
SumSeq(s, i) ==
    IF i = 0 THEN Zero
    ELSE IF IsNaN(s[i]) THEN SumSeq(s, i - 1)
    ELSE QAdd(SumSeq(s, i - 1), s[i])

Sum(frame, c) == SumSeq(Column(frame, c), Len(frame.rows))

-----------------------------------------------------------------------------
(* What the user can upload *)

RECURSIVE SeqsUpTo(_, _)
SeqsUpTo(S, n) ==
    IF n = 0 THEN {<<>>}
    ELSE LET shorter == SeqsUpTo(S, n - 1)
         IN shorter \cup {Append(s, x) : s \in {t \in shorter : Len(t) = n - 1}, x \in S}

\* A parsed row: the column 'Category' holds text, every other column integers.
RowsOf(schema) ==
    {r \in [Range(schema) -> {Q(v, 1) : v \in Vals} \cup {Text}] :
        \A c \in Range(schema) : (r[c] = Text) <=> (c = "Category")}

NoFile == [kind |-> "none", cols |-> <<>>, rows |-> <<>>]
BadFile == [kind |-> "unparseable", cols |-> <<>>, rows |-> <<>>]

TablesOf(schema) == {[kind |-> "table", cols |-> schema, rows |-> rs] :
                        rs \in SeqsUpTo(RowsOf(schema), MaxRows)}

Tables == UNION {TablesOf(schema) : schema \in Schemas}

Files == {NoFile, BadFile} \cup
         {t \in Tables : t.cols # <<>> \/ t.rows = <<>>}

NoWidgets == [budget |-> "?", actual |-> "?", category |-> "?"]
NoTotals == [budget |-> Unset, actual |-> Unset, variance |-> Unset, pct |-> Unset]

-----------------------------------------------------------------------------
(* The computation of lines 83-94 *)

\* pd.read_csv / pd.read_excel: the parsed table of the file.
ReadTable(file) == [cols |-> file.cols, rows |-> file.rows]

\* st.selectbox(label, options): the stored value, else the first option,
\* else None (modelled as "", also falsy).
Selectbox(stored, options) ==
    IF options = <<>> THEN ""
    ELSE IF stored = "?" THEN options[1]
    ELSE stored

\* The operands of line 84 exchanged.
VarianceColumn_Swapped(frame, b, a) ==
    [i \in 1..Len(frame.rows) |-> QSub(frame.rows[i][b], frame.rows[i][a])]

\* df[actual_col] - df[budget_col]
VarianceColumn(frame, b, a) ==
    [i \in 1..Len(frame.rows) |-> QSub(frame.rows[i][a], frame.rows[i][b])]

\* (df['Variance'] / df[budget_col]) * 100
PercentageColumn(frame, b) ==
    [i \in 1..Len(frame.rows) |->
        QTimes100(QDiv(frame.rows[i]["Variance"], frame.rows[i][b]))]

\* Subtracting raises TypeError when an operand is text.
RaisesTypeError(frame, b, a) ==
    \E i \in 1..Len(frame.rows) : ~IsNum(frame.rows[i][a]) \/ ~IsNum(frame.rows[i][b])

\* Lines 84-85, both assignments made on df itself.
CalculateVariances(frame, b, a) ==
    LET withVariance == SetColumn(frame, "Variance", VarianceColumn(frame, b, a))
    IN SetColumn(withVariance, "Variance_Percentage",
                 PercentageColumn(withVariance, b))

\* Lines 91-94, read from df after the assignments of lines 84-85.
SummaryMetrics(frame, b, a) ==
    LET total_budget == Sum(frame, b)
        total_actual == Sum(frame, a)
        total_variance == QSub(total_actual, total_budget)
    IN [budget |-> total_budget, actual |-> total_actual,
        variance |-> total_variance,
        pct |-> QTimes100(QDiv(total_variance, total_budget))]

\* The columns of a table without rows have dtype object and their sums are
\* the Python int 0, so line 94 divides int by int; whether that raises
\* ZeroDivisionError or yields NaN depends on the pandas build.
MayRaiseZeroDivision(frame) == IF frame.rows = <<>> THEN BOOLEAN ELSE {FALSE}

-----------------------------------------------------------------------------
(* The script *)

Init ==
    /\ env \in {"nokey", "initfail", "ok"}
    /\ uploaded_file = NoFile
    /\ widgets = NoWidgets
    /\ clicked = FALSE
    /\ pc = "start"
    /\ df = NoFrame
    /\ budget_col = ""
    /\ actual_col = ""
    /\ category_col = ""
    /\ totals = NoTotals
    /\ exc = ""
    /\ requests = 0
    /\ out = <<>>

\* Lines 9-14: without the key the script reports it and stops.
LoadApiKey ==
    /\ pc = "start"
    /\ IF env = "nokey"
         THEN /\ out' = Append(out, "error_api_key")
              /\ pc' = "stopped"
         ELSE /\ out' = out
              /\ pc' = "client"
    /\ UNCHANGED <<env, uploaded_file, widgets, clicked, df, budget_col,
                   actual_col, category_col, totals, exc, requests>>

\* Lines 16-31: title, then the Groq client; a failing constructor stops the script.
InitClient ==
    /\ pc = "client"
    /\ IF env = "initfail"
         THEN /\ out' = out \o <<"title", "error_client">>
              /\ pc' = "stopped"
         ELSE /\ out' = Append(out, "title")
              /\ pc' = "uploader"
    /\ UNCHANGED <<env, uploaded_file, widgets, clicked, df, budget_col,
                   actual_col, category_col, totals, exc, requests>>

\* Lines 34-40 and 193-194.
FileUploader ==
    /\ pc = "uploader"
    /\ IF uploaded_file.kind = "none"
         THEN /\ out' = out \o <<"uploader", "info_upload">>
              /\ pc' = "sidebar"
         ELSE /\ out' = Append(out, "uploader")
              /\ pc' = "read"
    /\ UNCHANGED <<env, uploaded_file, widgets, clicked, df, budget_col,
                   actual_col, category_col, totals, exc, requests>>

\* Lines 41-48.
ReadFile ==
    /\ pc = "read"
    /\ IF uploaded_file.kind = "unparseable"
         THEN /\ exc' = "ParseError"
              /\ pc' = "except"
              /\ UNCHANGED <<df, out>>
         ELSE /\ df' = ReadTable(uploaded_file)
              /\ out' = Append(out, "success_upload")
              /\ pc' = "select"
              /\ exc' = exc
    /\ UNCHANGED <<env, uploaded_file, widgets, clicked, budget_col,
                   actual_col, category_col, totals, requests>>

\* Lines 50-83: preview, data information, the three selectboxes and the
\* test of line 83.
ColumnSelection ==
    /\ pc = "select"
    /\ LET columns == df.cols
           b == Selectbox(widgets.budget, columns)
           a == Selectbox(widgets.actual, columns)
           c == Selectbox(widgets.category, <<"">> \o columns)
       IN /\ budget_col' = b
          /\ actual_col' = a
          /\ category_col' = c
          /\ widgets' = [budget |-> b, actual |-> a, category |-> c]
          /\ pc' = IF b # "" /\ a # "" THEN "calc" ELSE "sidebar"
    /\ out' = out \o <<"preview", "data_info", "selectboxes">>
    /\ UNCHANGED <<env, uploaded_file, clicked, df, totals, exc, requests>>

\* Lines 84-85.
Calculate ==
    /\ pc = "calc"
    /\ IF RaisesTypeError(df, budget_col, actual_col)
         THEN /\ exc' = "TypeError"
              /\ pc' = "except"
              /\ df' = df
         ELSE /\ df' = CalculateVariances(df, budget_col, actual_col)
              /\ pc' = "totals"
              /\ exc' = exc
    /\ UNCHANGED <<env, uploaded_file, widgets, clicked, budget_col,
                   actual_col, category_col, totals, requests, out>>

\* Lines 88-94.
Summarize ==
    /\ pc = "totals"
    /\ \E raises \in MayRaiseZeroDivision(df) :
         IF raises
           THEN /\ exc' = "ZeroDivisionError"
                /\ pc' = "except"
                /\ totals' = [SummaryMetrics(df, budget_col, actual_col)
                                 EXCEPT !.pct = Unset]
           ELSE /\ totals' = SummaryMetrics(df, budget_col, actual_col)
                /\ pc' = "display"
                /\ exc' = exc
    /\ out' = Append(out, "variance_header")
    /\ UNCHANGED <<env, uploaded_file, widgets, clicked, df, budget_col,
                   actual_col, category_col, requests>>

\* Lines 96-111: the four metrics, then the table.
ShowMetrics ==
    /\ pc = "display"
    /\ out' = out \o <<"metrics", "table">>
    /\ pc' = "ai"
    /\ UNCHANGED <<env, uploaded_file, widgets, clicked, df, budget_col,
                   actual_col, category_col, totals, exc, requests>>

\* Lines 114-165 without the inner try: a failure inside leaves through the
\* outer handler.
GenerateInsights_Unguarded ==
    /\ pc = "ai"
    /\ IF clicked
         THEN \E outcome \in {"prepare_failed", "answered", "request_failed"} :
                /\ requests' = IF outcome = "prepare_failed" THEN requests
                               ELSE requests + 1
                /\ IF outcome = "answered"
                     THEN /\ out' = out \o <<"button", "ai_success">>
                          /\ pc' = "viz"
                          /\ exc' = exc
                     ELSE /\ out' = Append(out, "button")
                          /\ pc' = "except"
                          /\ exc' = "CommentaryError"
         ELSE /\ requests' = requests
              /\ out' = Append(out, "button")
              /\ pc' = "viz"
              /\ exc' = exc
    /\ UNCHANGED <<env, uploaded_file, widgets, clicked, df, budget_col,
                   actual_col, category_col, totals>>

\* Lines 114-165: the button; when pressed, describe() and the prompt, one
\* request, and the answer or the error, all inside the inner try.
GenerateInsights ==
    /\ pc = "ai"
    /\ IF clicked
         THEN \E outcome \in {"prepare_failed", "answered", "request_failed"} :
                /\ requests' = IF outcome = "prepare_failed" THEN requests
                               ELSE requests + 1
                /\ out' = out \o <<"button",
                                   IF outcome = "answered" THEN "ai_success"
                                   ELSE "ai_error">>
         ELSE /\ requests' = requests
              /\ out' = Append(out, "button")
    /\ pc' = "viz"
    /\ UNCHANGED <<env, uploaded_file, widgets, clicked, df, budget_col,
                   actual_col, category_col, totals, exc>>

\* Lines 167-189: the charts are drawn by plotly, which may raise.
Visualizations ==
    /\ pc = "viz"
    /\ \E raises \in BOOLEAN :
         IF raises
           THEN /\ exc' = "ChartError"
                /\ pc' = "except"
                /\ out' = Append(out, "viz_header")
           ELSE /\ out' = out \o (IF category_col # ""
                                    THEN <<"viz_header", "chart_category", "chart_variance">>
                                    ELSE <<"viz_header", "chart_variance">>)
                /\ pc' = "sidebar"
                /\ exc' = exc
    /\ UNCHANGED <<env, uploaded_file, widgets, clicked, df, budget_col,
                   actual_col, category_col, totals, requests>>

\* An except clause that reports nothing.
HandleError_Silent ==
    /\ pc = "except"
    /\ pc' = "sidebar"
    /\ UNCHANGED <<env, uploaded_file, widgets, clicked, df, budget_col,
                   actual_col, category_col, totals, exc, requests, out>>

\* Lines 191-192.
HandleError ==
    /\ pc = "except"
    /\ out' = Append(out, "error_processing")
    /\ pc' = "sidebar"
    /\ UNCHANGED <<env, uploaded_file, widgets, clicked, df, budget_col,
                   actual_col, category_col, totals, exc, requests>>

\* Lines 196-221; the run ends and the button's value falls back to False.
Sidebar ==
    /\ pc = "sidebar"
    /\ out' = Append(out, "sidebar")
    /\ pc' = "done"
    /\ clicked' = FALSE
    /\ UNCHANGED <<env, uploaded_file, widgets, df, budget_col,
                   actual_col, category_col, totals, exc, requests>>

-----------------------------------------------------------------------------
(* The user: every interaction with a rendered widget reruns the script *)

Ended == pc \in {"done", "stopped"}
Rendered(tag) == Ended /\ tag \in Range(out)

Rerun ==
    /\ pc' = "start"
    /\ df' = NoFrame
    /\ budget_col' = ""
    /\ actual_col' = ""
    /\ category_col' = ""
    /\ totals' = NoTotals
    /\ exc' = ""
    /\ requests' = 0
    /\ out' = <<>>
    /\ env' = env

\* A file is put into the empty uploader; the selectboxes, not rendered
\* while there was no file, hold no value.
UploadFile ==
    /\ Rendered("uploader")
    /\ uploaded_file = NoFile
    /\ \E f \in Files \ {NoFile} : uploaded_file' = f
    /\ widgets' = NoWidgets
    /\ clicked' = FALSE
    /\ Rerun

\* The file is removed from the uploader.
RemoveFile ==
    /\ Rendered("uploader")
    /\ uploaded_file # NoFile
    /\ uploaded_file' = NoFile
    /\ widgets' = NoWidgets
    /\ clicked' = FALSE
    /\ Rerun

SelectBudget(c) ==
    /\ Rendered("selectboxes")
    /\ c # widgets.budget
    /\ widgets' = [widgets EXCEPT !.budget = c]
    /\ clicked' = FALSE
    /\ UNCHANGED uploaded_file
    /\ Rerun

SelectActual(c) ==
    /\ Rendered("selectboxes")
    /\ c # widgets.actual
    /\ widgets' = [widgets EXCEPT !.actual = c]
    /\ clicked' = FALSE
    /\ UNCHANGED uploaded_file
    /\ Rerun

SelectCategory(c) ==
    /\ Rendered("selectboxes")
    /\ c # widgets.category
    /\ widgets' = [widgets EXCEPT !.category = c]
    /\ clicked' = FALSE
    /\ UNCHANGED uploaded_file
    /\ Rerun

ClickButton ==
    /\ Rendered("button")
    /\ clicked' = TRUE
    /\ UNCHANGED <<uploaded_file, widgets>>
    /\ Rerun

Next ==
    \/ LoadApiKey
    \/ InitClient
    \/ FileUploader
    \/ ReadFile
    \/ ColumnSelection
    \/ Calculate
    \/ Summarize
    \/ ShowMetrics
    \/ GenerateInsights
    \/ Visualizations
    \/ HandleError
    \/ Sidebar
    \/ UploadFile
    \/ RemoveFile
    \/ \E c \in Range(uploaded_file.cols) : SelectBudget(c)
    \/ \E c \in Range(uploaded_file.cols) : SelectActual(c)
    \/ \E c \in Range(uploaded_file.cols) \cup {""} : SelectCategory(c)
    \/ ClickButton

Spec == Init /\ [][Next]_vars

-----------------------------------------------------------------------------
(* Vocabulary of the properties *)

\* The table as it was parsed from the upload, before lines 84-85 ran.
Input == uploaded_file

Shown(tag) == tag \in Range(out)

\* Lines 84-85 have been executed (they succeeded or raised).
CalcAttempted == budget_col # "" /\ pc # "calc"

\* The metrics and the detailed table of lines 96-111 are on the page.
Presented == Shown("metrics") /\ Shown("table")

HasText(table, c) == \E i \in 1..Len(table.rows) : table.rows[i][c].k = "s"

Derived == {"Variance", "Variance_Percentage"}

RECURSIVE IntSum(_, _, _)
IntSum(table, c, i) ==
    IF i = 0 THEN 0 ELSE IntSum(table, c, i - 1) + table.rows[i][c].n

InputSum(c) == IntSum(Input, c, Len(Input.rows))

\* n / m * 100 of two integers, m # 0, as a reduced fraction.
Percent(n, m) ==
    LET num == n * 100 * (IF m < 0 THEN -1 ELSE 1)
        den == IF m < 0 THEN -m ELSE m
        g == GCD(IF num < 0 THEN -num ELSE num, den)
    IN [k |-> "q", n |-> num \div g, d |-> den \div g]

-----------------------------------------------------------------------------
(* C1: once lines 84-85 have run on columns that are numeric in every row,  *)
(* df has exactly one row per row of the parsed table and the 'Variance' of *)
(* row i is the input row's actual minus the input row's budget, signed;    *)
(* this for every table and every pair of selected columns, also when one   *)
(* of them is itself named 'Variance' or 'Variance_Percentage'.             *)
C1_VarianceIsActualMinusBudget ==
    (CalcAttempted /\ ~HasText(Input, budget_col) /\ ~HasText(Input, actual_col))
    => /\ exc # "TypeError"
       /\ Len(df.rows) = Len(Input.rows)
       /\ \A i \in 1..Len(Input.rows) :
            df.rows[i]["Variance"] =
              [k |-> "q",
               n |-> Input.rows[i][actual_col].n - Input.rows[i][budget_col].n,
               d |-> 1]

\* Two rows are on the page, one of them with actual below budget.
C1_Witness ==
    /\ Presented
    /\ budget_col # actual_col
    /\ Len(df.rows) = 2
    /\ \E i \in 1..2 : /\ Input.rows[i][actual_col].n < Input.rows[i][budget_col].n
                       /\ df.rows[i]["Variance"].n < 0

(* C2: no presented table holds a row whose budget is 0 (the calculator     *)
(* signals an error for it instead of a percentage); for a row with         *)
(* budget # 0 the percentage is variance / budget * 100.  The second half   *)
(* is stated for budget columns that lines 84-85 do not overwrite.          *)
C2_ZeroBudgetRowSignalsError ==
    Presented =>
      \A i \in 1..Len(Input.rows) :
        LET b == Input.rows[i][budget_col].n
            a == Input.rows[i][actual_col].n
        IN /\ b # 0
           /\ budget_col \notin Derived
                => df.rows[i]["Variance_Percentage"] = Percent(a - b, b)

(* C3: the presented totals are those of the input table:                   *)
(* total variance = sum(actual) - sum(budget) = the sum of the rows'        *)
(* variances, and, when sum(budget) # 0, the total percentage is            *)
(* total variance / sum(budget) * 100.                                      *)
C3_TotalsFromColumnSums ==
    Presented =>
      LET sb == InputSum(budget_col)
          sa == InputSum(actual_col)
      IN /\ totals.variance = [k |-> "q", n |-> sa - sb, d |-> 1]
         /\ totals.variance = Sum(df, "Variance")
         /\ sb # 0 => totals.pct = Percent(sa - sb, sb)

(* C4: when the budget column sums to 0, line 94 signals an error and no    *)
(* total percentage exists.  Stated for tables with at least one row (the   *)
(* table without rows is the case of MayRaiseZeroDivision) and for budget   *)
(* columns that lines 84-85 do not overwrite.                               *)
C4_ZeroBudgetSumSignalsError ==
    (/\ Shown("variance_header")
     /\ Input.rows # <<>>
     /\ budget_col \notin Derived
     /\ InputSum(budget_col) = 0)
    => /\ exc = "ZeroDivisionError"
       /\ totals.pct = Unset

(* C5: the table handed to the calculation, df as parsed from the upload,   *)
(* keeps its columns and its cells; the derived values live elsewhere.      *)
C5_InputNotMutated ==
    Shown("success_upload") =>
      /\ df.cols = Input.cols
      /\ df.rows = Input.rows

(* C6: building the summary a second time on the same table object, df,     *)
(* with the same selections gives the rows and totals of the first time.    *)
C6_RepeatedBuildIdentical ==
    Presented =>
      LET again == CalculateVariances(df, budget_col, actual_col)
      IN /\ again = df
         /\ SummaryMetrics(again, budget_col, actual_col) = totals

(* C7: whatever the state of the commentary service, an execution that has  *)
(* ended took the tabular input (the uploader was reached), and where a     *)
(* table with rows and two numeric columns were supplied it computed and    *)
(* presented the variance rows and totals.                                  *)
C7_PipelineIndependentOfCommentary ==
    Ended =>
      /\ Shown("uploader")
      /\ (/\ uploaded_file.kind = "table"
          /\ uploaded_file.rows # <<>>
          /\ budget_col # ""
          /\ ~HasText(Input, budget_col)
          /\ ~HasText(Input, actual_col))
         => Presented

(* C8: a data-shape error of the computation (a text column selected, the   *)
(* integer division of line 94) is raised, not swallowed: nothing of the    *)
(* variance result is presented in that execution, no commentary request    *)
(* is made, and when the execution ends the error is on the page.           *)
C8_ComputationAllOrNothing ==
    /\ (CalcAttempted /\ (HasText(Input, budget_col) \/ HasText(Input, actual_col)))
         => exc = "TypeError"
    /\ exc \in {"TypeError", "ZeroDivisionError"}
         => /\ ~Shown("metrics")
            /\ ~Shown("table")
            /\ ~Shown("chart_variance")
            /\ requests = 0
            /\ Ended => Shown("error_processing")

\* A run over a text column has ended with the error reported.
C8_Witness ==
    /\ pc = "done"
    /\ exc = "TypeError"
    /\ HasText(Input, budget_col)
    /\ Shown("error_processing")
    /\ ~Presented

(* C9: every presented row still carries every field of its input row with  *)
(* the original value; lines 84-85 only add fields.                         *)
C9_OriginalFieldsKept ==
    Presented =>
      \A i \in 1..Len(Input.rows) : \A c \in Range(Input.cols) :
        df.rows[i][c] = Input.rows[i][c]

(* C10: the commentary request is made at most once per run, only in the    *)
(* run a button press started and only after the rows and totals were       *)
(* presented; its outcome is reported; the step that makes it changes       *)
(* neither df nor the totals; and a run whose request failed goes on to     *)
(* the visualizations.                                                      *)
C10_State ==
    /\ requests <= 1
    /\ requests = 1 => Presented /\ (Shown("ai_success") \/ Shown("ai_error"))
    /\ Shown("ai_error") => pc = "viz" \/ Shown("viz_header")
    /\ Shown("ai_success") => ~Shown("ai_error")

C10_Step ==
    /\ requests' > requests
         => clicked /\ pc = "ai" /\ Presented /\ requests' = 1
    /\ pc = "ai" => df' = df /\ totals' = totals /\ exc' = exc /\ pc' = "viz"
    /\ (Presented /\ pc' # "start") => df' = df /\ totals' = totals

C10_CommentaryOneShot == [](C10_State) /\ [][C10_Step]_vars

\* A pressed button, one request that failed, the charts drawn all the same.
C10_Witness ==
    /\ pc = "done"
    /\ requests = 1
    /\ Shown("ai_error")
    /\ Shown("chart_variance")
    /\ Presented

====
